---- MODULE Spec2Model ----
(***************************************************************************)
(* LockFreeStack<T> (src/lock_free_stack.h): a Treiber stack whose pop      *)
(* defers the physical deletion of detached nodes until no other thread is  *)
(* inside pop.  Every atomic operation, and every access to a node's        *)
(* memory, of the source is one step of the thread that executes it.        *)
(***************************************************************************)
EXTENDS Integers, Naturals, Sequences, FiniteSets, TLC

\* ------------------------------------------------------------------ bounds
NThreads == 2          \* worker threads calling push and pop
MaxPush  == 2          \* push calls issued over a run (each pushes a new value)
MaxPop   == 3          \* pop calls issued by the worker threads over a run

Threads == 1..NThreads
Values  == 1..MaxPush  \* the k-th push call pushes the value k
Addr    == 1..MaxPush  \* heap addresses operator new can hand out
NULL    == 0           \* nullptr
Empty   == 0           \* an empty shared_ptr<T>

VARIABLES
    head,            \* std::atomic<node*> head                      (line 81)
    to_be_deleted,   \* std::atomic<node*> to_be_deleted             (line 15)
    threads_in_pop,  \* std::atomic<int> threads_in_pop              (line 14)
    alloc,           \* the addresses that hold a constructed node
    brk,             \* the highest address operator new has handed out so far
    next,            \* node::next of the node at each address       (line 77)
    data,            \* node::data of the node at each address       (line 76)
    th,              \* each thread's position and locals
    dtor,            \* the lifetime of the stack object
    fault,           \* how the process died, if it did
    nPush, nPop,     \* calls issued so far
    val,             \* history: the value each address was constructed with
    retCount,        \* history: how many pop calls returned each value
    freeCount,       \* history: how many times each value's node was deleted
    detachCount,     \* history: how many pop CASes detached each value's node
    pushDone,        \* history: how many push calls have returned
    log,             \* history: the results of the calls, in return order
    tracing,         \* history: whether log is being kept
    abs              \* history: the atomic stack the calls act on, top first

vars == <<head, to_be_deleted, threads_in_pop, alloc, brk, next, data, th, dtor,
          fault, nPush, nPop, val, retCount, freeCount, detachCount,
          pushDone, log, tracing, abs>>

shared == <<head, to_be_deleted, threads_in_pop>>
heap   == <<alloc, next, data, val>>
issued == <<nPush, brk>>
hist   == <<retCount, freeCount, detachCount, pushDone, log, tracing, abs>>

\* A thread outside any call: every local is dead.
IdleThread ==
    [pc |-> "idle", op |-> "none", arg |-> Empty, new_node |-> NULL,
     old_head |-> NULL, seen |-> Empty, top |-> Empty, nxt |-> NULL,
     res |-> Empty,
     nodes_to_delete |-> NULL, taken |-> {}, first |-> NULL, last |-> NULL,
     via |-> "none"]

\* The state after LockFreeStack(): head(nullptr).  The constructor names
\* only head; threads_in_pop and to_be_deleted are default-constructed
\* std::atomic objects, which std::atomic's default constructor
\* value-initialises (C++20): zero and nullptr.
Constructed ==
    /\ head = NULL
    /\ to_be_deleted = NULL
    /\ threads_in_pop = 0
    /\ alloc = {}
    /\ brk = 0
    /\ next = [a \in Addr |-> NULL]
    /\ data = [a \in Addr |-> Empty]
    /\ th = [t \in Threads |-> IdleThread]
    /\ dtor = "alive"
    /\ fault = "none"
    /\ nPush = 0
    /\ nPop = 0
    /\ val = [a \in Addr |-> Empty]
    /\ retCount = [v \in Values |-> 0]
    /\ freeCount = [v \in Values |-> 0]
    /\ detachCount = [v \in Values |-> 0]
    /\ pushDone = 0
    /\ log = <<>>
    /\ abs = <<>>

\* Any threads, any interleaving; only the counters are kept as history.
Init == Constructed /\ tracing = FALSE

\* The calls of one thread, with their results logged in order.
InitSeq == Constructed /\ tracing = TRUE

\* ---------------------------------------------------------------- helpers
Running == fault = "none"

Set(t, r) == th' = [th EXCEPT ![t] = r]

Record(e) == IF tracing THEN Append(log, e) ELSE log

\* What dereferencing p does.  Through nullptr it is an access just above
\* address 0, which ends the process; through a deleted node it is
\* undefined, and the run is cut there with the kind recorded, so that no
\* particular content of freed memory is assumed.
DerefFault(p) ==
    IF p = NULL THEN "null_deref"
    ELSE IF p \notin alloc THEN "use_after_free"
    ELSE "none"

\* delete p for p # nullptr: ~node() releases the node's members and the
\* address goes back to the allocator.
DeleteNode(p) ==
    /\ alloc' = alloc \ {p}
    /\ next' = [next EXCEPT ![p] = NULL]
    /\ data' = [data EXCEPT ![p] = Empty]
    /\ val' = [val EXCEPT ![p] = Empty]
    /\ freeCount' = [freeCount EXCEPT ![val[p]] = @ + 1]

\* The top of the atomic stack, and the atomic stack without it.
AbsTop == IF abs = <<>> THEN Empty ELSE Head(abs)
AbsPop == IF abs = <<>> THEN abs ELSE Tail(abs)

\* ------------------------------------------------------------------- push
\* The addresses operator new may return: any address freed earlier, or
\* the next address never handed out before.
NewAddr == {a \in Addr \ alloc : a <= brk + 1}

\* line 98: new node(data)
PushNew(t) ==
    /\ Running /\ dtor = "alive"
    /\ th[t].pc = "idle"
    /\ nPush < MaxPush
    /\ \E a \in NewAddr :
         /\ alloc' = alloc \cup {a}
         /\ brk' = IF a > brk THEN a ELSE brk
         /\ next' = [next EXCEPT ![a] = NULL]
         /\ data' = [data EXCEPT ![a] = nPush + 1]
         /\ val' = [val EXCEPT ![a] = nPush + 1]
         /\ Set(t, [th[t] EXCEPT !.pc = "push_load", !.op = "push",
                                 !.arg = nPush + 1, !.new_node = a])
    /\ nPush' = nPush + 1
    /\ UNCHANGED <<shared, dtor, fault, nPop, hist>>

\* line 98: new node(data) fails: operator new, or make_shared in node's
\* constructor (line 79), throws std::bad_alloc; the new-expression gives
\* back what it had obtained and the exception leaves push, which has no
\* handler
PushNewFail(t) ==
    /\ Running /\ dtor = "alive"
    /\ th[t].pc = "idle"
    /\ nPush < MaxPush
    /\ Set(t, [th[t] EXCEPT !.pc = "push_throw", !.op = "push",
                            !.arg = nPush + 1])
    /\ UNCHANGED <<shared, heap, dtor, fault, issued, nPop, hist>>

\* Faulty variant: the failed allocation yields nullptr and push carries on.
PushThrowSwallowed(t) ==
    /\ Running
    /\ th[t].pc = "push_throw"
    /\ Set(t, [th[t] EXCEPT !.pc = "push_load", !.new_node = NULL])
    /\ UNCHANGED <<shared, heap, dtor, fault, issued, nPop, hist>>

\* lines 96-98: the exception reaches the caller of push
PushThrow(t) ==
    /\ Running
    /\ th[t].pc = "push_throw"
    /\ Set(t, IdleThread)
    /\ UNCHANGED <<shared, heap, dtor, fault, issued, nPop, hist>>

\* line 99: new_node->next = head.load()
PushLoad(t) ==
    /\ Running
    /\ th[t].pc = "push_load"
    /\ next' = [next EXCEPT ![th[t].new_node] = head]
    /\ Set(t, [th[t] EXCEPT !.pc = "push_cas"])
    /\ UNCHANGED <<shared, alloc, data, val, dtor, fault, issued, nPop, hist>>

\* Faulty variant: the store to head is made without comparing head with the
\* snapshot in new_node->next.
PushCasBlind(t) ==
    /\ Running
    /\ th[t].pc = "push_cas"
    /\ head' = th[t].new_node
    /\ abs' = <<th[t].arg>> \o abs
    /\ pushDone' = pushDone + 1
    /\ log' = Record(<<"push", th[t].arg>>)
    /\ Set(t, IdleThread)
    /\ UNCHANGED <<to_be_deleted, threads_in_pop, heap, dtor, fault, issued,
                   nPop, retCount, freeCount, detachCount, tracing>>

\* line 101: head.compare_exchange_weak(new_node->next, new_node) succeeds,
\* the loop ends and push returns
PushCasOk(t) ==
    /\ Running
    /\ th[t].pc = "push_cas"
    /\ head = next[th[t].new_node]
    /\ head' = th[t].new_node
    /\ abs' = <<th[t].arg>> \o abs
    /\ pushDone' = pushDone + 1
    /\ log' = Record(<<"push", th[t].arg>>)
    /\ Set(t, IdleThread)
    /\ UNCHANGED <<to_be_deleted, threads_in_pop, heap, dtor, fault, issued,
                   nPop, retCount, freeCount, detachCount, tracing>>

\* Faulty variant: a failed exchange ends the loop; push returns with the node
\* left unlinked.
PushCasGiveUp(t) ==
    /\ Running
    /\ th[t].pc = "push_cas"
    /\ head # next[th[t].new_node]
    /\ pushDone' = pushDone + 1
    /\ log' = Record(<<"push", th[t].arg>>)
    /\ Set(t, IdleThread)
    /\ UNCHANGED <<shared, heap, dtor, fault, issued, nPop, retCount, freeCount,
                   detachCount, tracing, abs>>

\* line 101: the compare fails; the current head is stored in new_node->next
\* (a spurious failure of the weak form stores the value already there)
PushCasFail(t) ==
    /\ Running
    /\ th[t].pc = "push_cas"
    /\ head # next[th[t].new_node]
    /\ next' = [next EXCEPT ![th[t].new_node] = head]
    /\ UNCHANGED <<shared, alloc, data, val, th, dtor, fault, issued, nPop, hist>>

\* -------------------------------------------------------------------- pop
Bump(f, v) == IF v \in DOMAIN f THEN [f EXCEPT ![v] = @ + 1] ELSE f

\* line 107: ++threads_in_pop
PopIncr(t) ==
    /\ Running
    /\ th[t].pc = "idle"
    /\ threads_in_pop' = threads_in_pop + 1
    /\ Set(t, [th[t] EXCEPT !.pc = "pop_load", !.op = "pop"])
    /\ UNCHANGED <<head, to_be_deleted, heap, fault, issued, hist>>

\* a worker thread calls pop
PopEnter(t) ==
    /\ dtor = "alive"
    /\ nPop < MaxPop
    /\ PopIncr(t)
    /\ nPop' = nPop + 1
    /\ UNCHANGED dtor

\* line 108: node *old_head = head.load()
PopLoad(t) ==
    /\ Running
    /\ th[t].pc = "pop_load"
    /\ Set(t, [th[t] EXCEPT !.pc = "pop_loop", !.old_head = head,
                            !.seen = IF head = NULL THEN Empty ELSE val[head],
                            !.top = IF head = NULL THEN AbsTop ELSE Empty])
    /\ UNCHANGED <<shared, heap, dtor, fault, issued, nPop, hist>>

\* Faulty variant: the successor handed to the exchange is nullptr, not
\* old_head->next.
PopLoopNoNext(t) ==
    /\ Running
    /\ th[t].pc = "pop_loop"
    /\ IF th[t].old_head = NULL
       THEN Set(t, [th[t] EXCEPT !.pc = "pop_swap"])
       ELSE Set(t, [th[t] EXCEPT !.pc = "pop_cas", !.nxt = NULL])
    /\ UNCHANGED <<shared, heap, dtor, fault, issued, nPop, hist>>

\* line 110, the loop condition up to the call: old_head && ... with the
\* argument old_head->next read from the node
PopLoop(t) ==
    /\ Running
    /\ th[t].pc = "pop_loop"
    /\ IF th[t].old_head = NULL
       THEN /\ Set(t, [th[t] EXCEPT !.pc = "pop_swap"])
            /\ UNCHANGED fault
       ELSE IF DerefFault(th[t].old_head) # "none"
       THEN /\ fault' = DerefFault(th[t].old_head)
            /\ UNCHANGED th
       ELSE /\ Set(t, [th[t] EXCEPT !.pc = "pop_cas",
                                    !.nxt = next[th[t].old_head]])
            /\ UNCHANGED fault
    /\ UNCHANGED <<shared, heap, dtor, issued, nPop, hist>>

\* Faulty variant: head is overwritten without comparing it with old_head.
PopCasBlind(t) ==
    /\ Running
    /\ th[t].pc = "pop_cas"
    /\ head' = th[t].nxt
    /\ abs' = AbsPop
    /\ detachCount' = Bump(detachCount, val[th[t].old_head])
    /\ Set(t, [th[t] EXCEPT !.pc = "pop_swap", !.nxt = NULL, !.top = AbsTop])
    /\ UNCHANGED <<to_be_deleted, threads_in_pop, heap, dtor, fault, issued,
                   nPop, retCount, freeCount, pushDone, log, tracing>>

\* line 110: head.compare_exchange_weak(old_head, old_head->next) succeeds
PopCasOk(t) ==
    /\ Running
    /\ th[t].pc = "pop_cas"
    /\ head = th[t].old_head
    /\ head' = th[t].nxt
    /\ abs' = AbsPop
    /\ detachCount' = Bump(detachCount, val[th[t].old_head])
    /\ Set(t, [th[t] EXCEPT !.pc = "pop_swap", !.nxt = NULL, !.top = AbsTop])
    /\ UNCHANGED <<to_be_deleted, threads_in_pop, heap, dtor, fault, issued,
                   nPop, retCount, freeCount, pushDone, log, tracing>>

\* Faulty variant: old_head->next is read once, ahead of the loop; a failed
\* exchange refreshes old_head and retries with the successor read earlier.
PopCasFailHoisted(t) ==
    /\ Running
    /\ th[t].pc = "pop_cas"
    /\ Set(t, [th[t] EXCEPT !.pc = IF head = NULL THEN "pop_loop" ELSE "pop_cas",
                            !.old_head = head,
                            !.seen = IF head = NULL THEN Empty ELSE val[head],
                            !.top = IF head = NULL THEN AbsTop ELSE Empty])
    /\ UNCHANGED <<shared, heap, dtor, fault, issued, nPop, hist>>

\* line 110: the exchange fails (head moved, or the weak form failed
\* spuriously); old_head receives the current head and the loop goes round
PopCasFail(t) ==
    /\ Running
    /\ th[t].pc = "pop_cas"
    /\ Set(t, [th[t] EXCEPT !.pc = "pop_loop", !.old_head = head, !.nxt = NULL,
                            !.seen = IF head = NULL THEN Empty ELSE val[head],
                            !.top = IF head = NULL THEN AbsTop ELSE Empty])
    /\ UNCHANGED <<shared, heap, dtor, fault, issued, nPop, hist>>

\* Faulty variant: res is assigned a copy of old_head->data; the node keeps
\* its handle.
PopSwapCopy(t) ==
    /\ Running
    /\ th[t].pc = "pop_swap"
    /\ IF th[t].old_head = NULL
       THEN /\ Set(t, [th[t] EXCEPT !.pc = "rc_check"])
            /\ UNCHANGED fault
       ELSE IF DerefFault(th[t].old_head) # "none"
       THEN /\ fault' = DerefFault(th[t].old_head)
            /\ UNCHANGED th
       ELSE /\ Set(t, [th[t] EXCEPT !.pc = "rc_check",
                                    !.res = data[th[t].old_head]])
            /\ UNCHANGED fault
    /\ UNCHANGED <<shared, heap, dtor, issued, nPop, hist>>

\* Faulty variant: the value is never moved out of the node; res stays empty.
PopSwapSkip(t) ==
    /\ Running
    /\ th[t].pc = "pop_swap"
    /\ Set(t, [th[t] EXCEPT !.pc = "rc_check"])
    /\ UNCHANGED <<shared, heap, dtor, fault, issued, nPop, hist>>

\* lines 112-114: std::shared_ptr<T> res; if (old_head) res.swap(old_head->data)
PopSwap(t) ==
    /\ Running
    /\ th[t].pc = "pop_swap"
    /\ IF th[t].old_head = NULL
       THEN /\ Set(t, [th[t] EXCEPT !.pc = "rc_check"])
            /\ UNCHANGED <<data, fault>>
       ELSE IF DerefFault(th[t].old_head) # "none"
       THEN /\ fault' = DerefFault(th[t].old_head)
            /\ UNCHANGED <<data, th>>
       ELSE /\ Set(t, [th[t] EXCEPT !.pc = "rc_check",
                                    !.res = data[th[t].old_head]])
            /\ data' = [data EXCEPT ![th[t].old_head] = Empty]
            /\ UNCHANGED fault
    /\ UNCHANGED <<shared, alloc, next, val, dtor, issued, nPop, hist>>

\* line 116: return res; in the destructor, line 92 tests the result
PopReturn(t) ==
    /\ Running
    /\ th[t].pc = "pop_ret"
    /\ retCount' = Bump(retCount, th[t].res)
    /\ log' = Record(<<"pop", th[t].res>>)
    /\ dtor' = IF dtor = "running" /\ th[t].res = Empty THEN "destroyed" ELSE dtor
    /\ Set(t, IdleThread)
    /\ UNCHANGED <<shared, heap, fault, issued, nPop, freeCount, detachCount,
                   pushDone, tracing, abs>>

\* ------------------------------------------------------------ try_reclaim
\* The values of the nodes reached from p along next.
RECURSIVE Reach(_, _)
Reach(p, seen) ==
    IF p = NULL \/ p \in seen THEN seen ELSE Reach(next[p], seen \cup {p})

ValuesFrom(p) == {val[a] : a \in Reach(p, {})}

\* Faulty variant: the detached node is deleted whatever the counter says.
RcCheckAlwaysFree(t) ==
    /\ Running
    /\ th[t].pc = "rc_check"
    /\ Set(t, [th[t] EXCEPT !.pc = "rc_delete"])
    /\ UNCHANGED <<shared, heap, dtor, fault, issued, nPop, hist>>

\* Faulty variant: the test reads threads_in_pop == 0, which the caller's own
\* increment makes false.
RcCheckZero(t) ==
    /\ Running
    /\ th[t].pc = "rc_check"
    /\ IF threads_in_pop = 0
       THEN Set(t, [th[t] EXCEPT !.pc = "rc_delete"])
       ELSE Set(t, [th[t] EXCEPT !.pc = "chain_load", !.via = "one",
                                 !.first = th[t].old_head,
                                 !.last = th[t].old_head])
    /\ UNCHANGED <<shared, heap, dtor, fault, issued, nPop, hist>>

\* Faulty variant: the call of line 35 runs the list form of lines 40-48,
\* which walks from old_head along next before appending.
RcCheckWalks(t) ==
    /\ Running
    /\ th[t].pc = "rc_check"
    /\ IF threads_in_pop = 1
       THEN Set(t, [th[t] EXCEPT !.pc = "rc_delete"])
       ELSE Set(t, [th[t] EXCEPT !.pc = "chain_walk", !.via = "one",
                                 !.first = th[t].old_head,
                                 !.last = th[t].old_head])
    /\ UNCHANGED <<shared, heap, dtor, fault, issued, nPop, hist>>

\* line 19: if (threads_in_pop == 1); otherwise line 35 calls
\* chain_pending_nodes(old_head), the one-node form of lines 57-60
RcCheck(t) ==
    /\ Running
    /\ th[t].pc = "rc_check"
    /\ IF threads_in_pop = 1
       THEN Set(t, [th[t] EXCEPT !.pc = "rc_delete"])
       ELSE Set(t, [th[t] EXCEPT !.pc = "chain_load", !.via = "one",
                                 !.first = th[t].old_head,
                                 !.last = th[t].old_head])
    /\ UNCHANGED <<shared, heap, dtor, fault, issued, nPop, hist>>

\* line 21: delete old_head
RcDelete(t) ==
    /\ Running
    /\ th[t].pc = "rc_delete"
    /\ IF th[t].old_head = NULL
       THEN /\ Set(t, [th[t] EXCEPT !.pc = "rc_exchange"])
            /\ UNCHANGED <<heap, freeCount, fault>>
       ELSE IF th[t].old_head \notin alloc
       THEN /\ fault' = "double_free"
            /\ UNCHANGED <<heap, freeCount, th>>
       ELSE /\ DeleteNode(th[t].old_head)
            /\ Set(t, [th[t] EXCEPT !.pc = "rc_exchange"])
            /\ UNCHANGED fault
    /\ UNCHANGED <<shared, dtor, issued, nPop, retCount, detachCount, pushDone,
                   log, tracing, abs>>

\* Faulty variant: the pending list is read with load(), not taken with exchange().
RcExchangeLoad(t) ==
    /\ Running
    /\ th[t].pc = "rc_exchange"
    /\ Set(t, [th[t] EXCEPT !.pc = "rc_dec", !.nodes_to_delete = to_be_deleted])
    /\ UNCHANGED <<shared, heap, dtor, fault, issued, nPop, hist>>

\* Faulty variant: the pending list is never taken.
RcExchangeSkip(t) ==
    /\ Running
    /\ th[t].pc = "rc_exchange"
    /\ Set(t, [th[t] EXCEPT !.pc = "rc_dec", !.nodes_to_delete = NULL])
    /\ UNCHANGED <<shared, heap, dtor, fault, issued, nPop, hist>>

\* line 22: node *nodes_to_delete = to_be_deleted.exchange(nullptr); taken
\* keeps, as history, the values whose nodes the exchange took
RcExchange(t) ==
    /\ Running
    /\ th[t].pc = "rc_exchange"
    /\ to_be_deleted' = NULL
    /\ Set(t, [th[t] EXCEPT !.pc = "rc_dec", !.nodes_to_delete = to_be_deleted,
                            !.taken = ValuesFrom(to_be_deleted)])
    /\ UNCHANGED <<head, threads_in_pop, heap, dtor, fault, issued, nPop, hist>>

\* Faulty variant: the counter is tested against one but never decremented.
RcDecNoStore(t) ==
    /\ Running
    /\ th[t].pc = "rc_dec"
    /\ IF threads_in_pop - 1 = 0
       THEN Set(t, [th[t] EXCEPT !.pc = "delete_nodes"])
       ELSE IF th[t].nodes_to_delete # NULL
       THEN Set(t, [th[t] EXCEPT !.pc = "chain_walk", !.via = "nodes",
                                 !.first = th[t].nodes_to_delete,
                                 !.last = th[t].nodes_to_delete])
       ELSE Set(t, [th[t] EXCEPT !.pc = "pop_ret"])
    /\ UNCHANGED <<shared, heap, dtor, fault, issued, nPop, hist>>

\* Faulty variant: the taken nodes are deleted whatever the counter has
\* become.
RcDecFreesAnyway(t) ==
    /\ Running
    /\ th[t].pc = "rc_dec"
    /\ threads_in_pop' = threads_in_pop - 1
    /\ Set(t, [th[t] EXCEPT !.pc = "delete_nodes"])
    /\ UNCHANGED <<head, to_be_deleted, heap, dtor, fault, issued, nPop, hist>>

\* lines 24-31: if (!--threads_in_pop) delete_nodes(nodes_to_delete);
\* else if (nodes_to_delete) chain_pending_nodes(nodes_to_delete), the
\* list form of lines 40-48, which starts with last = nodes
RcDec(t) ==
    /\ Running
    /\ th[t].pc = "rc_dec"
    /\ threads_in_pop' = threads_in_pop - 1
    /\ IF threads_in_pop - 1 = 0
       THEN Set(t, [th[t] EXCEPT !.pc = "delete_nodes"])
       ELSE IF th[t].nodes_to_delete # NULL
       THEN Set(t, [th[t] EXCEPT !.pc = "chain_walk", !.via = "nodes",
                                 !.first = th[t].nodes_to_delete,
                                 !.last = th[t].nodes_to_delete])
       ELSE Set(t, [th[t] EXCEPT !.pc = "pop_ret"])
    /\ UNCHANGED <<head, to_be_deleted, heap, dtor, fault, issued, nPop, hist>>

\* Faulty variant: the branch of lines 33-37 returns without the decrement.
RcDecElseSkip(t) ==
    /\ Running
    /\ th[t].pc = "rc_dec_else"
    /\ Set(t, [th[t] EXCEPT !.pc = "pop_ret"])
    /\ UNCHANGED <<shared, heap, dtor, fault, issued, nPop, hist>>

\* line 36: --threads_in_pop
RcDecElse(t) ==
    /\ Running
    /\ th[t].pc = "rc_dec_else"
    /\ threads_in_pop' = threads_in_pop - 1
    /\ Set(t, [th[t] EXCEPT !.pc = "pop_ret"])
    /\ UNCHANGED <<head, to_be_deleted, heap, dtor, fault, issued, nPop, hist>>

\* lines 65-70, one turn of the loop: next = nodes->next; delete nodes;
\* nodes = next
DeleteNodes(t) ==
    /\ Running
    /\ th[t].pc = "delete_nodes"
    /\ IF th[t].nodes_to_delete = NULL
       THEN /\ Set(t, [th[t] EXCEPT !.pc = "pop_ret"])
            /\ UNCHANGED <<heap, freeCount, fault>>
       ELSE IF th[t].nodes_to_delete \notin alloc
       THEN /\ fault' = "double_free"
            /\ UNCHANGED <<heap, freeCount, th>>
       ELSE /\ DeleteNode(th[t].nodes_to_delete)
            /\ Set(t, [th[t] EXCEPT
                         !.nodes_to_delete = next[th[t].nodes_to_delete]])
            /\ UNCHANGED fault
    /\ UNCHANGED <<shared, dtor, issued, nPop, retCount, detachCount, pushDone,
                   log, tracing, abs>>

\* ---------------------------------------------------- chain_pending_nodes
\* The source defines chain_pending_nodes(node *) twice (lines 40 and 57).
\* Each one-argument call is read as the form its argument names: the taken
\* list nodes_to_delete (line 30) goes to lines 40-48, the single node
\* old_head (line 35) to lines 57-60.  Both end in lines 50-55.
\* lines 43-47, one turn of the loop: while (node *const next = last->next)
\* last = next; then the call of the two-pointer form
ChainWalk(t) ==
    /\ Running
    /\ th[t].pc = "chain_walk"
    /\ IF DerefFault(th[t].last) # "none"
       THEN /\ fault' = DerefFault(th[t].last)
            /\ UNCHANGED th
       ELSE /\ IF next[th[t].last] # NULL
               THEN Set(t, [th[t] EXCEPT !.last = next[th[t].last]])
               ELSE Set(t, [th[t] EXCEPT !.pc = "chain_load"])
            /\ UNCHANGED fault
    /\ UNCHANGED <<shared, heap, dtor, issued, nPop, hist>>

\* line 52: last->next = to_be_deleted.load()
ChainLoad(t) ==
    /\ Running
    /\ th[t].pc = "chain_load"
    /\ IF DerefFault(th[t].last) # "none"
       THEN /\ fault' = DerefFault(th[t].last)
            /\ UNCHANGED <<next, th>>
       ELSE /\ next' = [next EXCEPT ![th[t].last] = to_be_deleted]
            /\ Set(t, [th[t] EXCEPT !.pc = "chain_cas"])
            /\ UNCHANGED fault
    /\ UNCHANGED <<shared, alloc, data, val, dtor, issued, nPop, hist>>

\* Faulty variant: first is stored in to_be_deleted without comparing
\* to_be_deleted with last->next.
ChainCasBlind(t) ==
    /\ Running
    /\ th[t].pc = "chain_cas"
    /\ to_be_deleted' = th[t].first
    /\ Set(t, [th[t] EXCEPT
                 !.pc = IF th[t].via = "one" THEN "rc_dec_else" ELSE "pop_ret",
                 !.first = NULL, !.last = NULL, !.via = "none",
                 !.nodes_to_delete = NULL])
    /\ UNCHANGED <<head, threads_in_pop, heap, dtor, fault, issued, nPop, hist>>

\* line 53: to_be_deleted.compare_exchange_weak(last->next, first) succeeds;
\* control returns to line 36 (one-node form) or to pop (list form)
ChainCasOk(t) ==
    /\ Running
    /\ th[t].pc = "chain_cas"
    /\ to_be_deleted = next[th[t].last]
    /\ to_be_deleted' = th[t].first
    /\ Set(t, [th[t] EXCEPT
                 !.pc = IF th[t].via = "one" THEN "rc_dec_else" ELSE "pop_ret",
                 !.first = NULL, !.last = NULL, !.via = "none",
                 !.nodes_to_delete = NULL])
    /\ UNCHANGED <<head, threads_in_pop, heap, dtor, fault, issued, nPop, hist>>

\* line 53: the exchange fails; last->next receives the current list head
ChainCasFail(t) ==
    /\ Running
    /\ th[t].pc = "chain_cas"
    /\ next' = [next EXCEPT ![th[t].last] = to_be_deleted]
    /\ UNCHANGED <<shared, alloc, data, val, th, dtor, fault, issued, nPop, hist>>

\* ------------------------------------------------------------- destructor
\* The thread that owns the stack object and runs its destructor.
MainThread == 1

\* ~LockFreeStack() is entered; its precondition is that no other thread
\* is operating on the stack
DtorStart ==
    /\ Running
    /\ dtor = "alive"
    /\ \A t \in Threads : th[t].pc = "idle"
    /\ dtor' = "running"
    /\ UNCHANGED <<shared, heap, th, fault, issued, nPop, hist>>

\* lines 92-93: while (pop()) ; calls pop once more
DtorPop ==
    /\ dtor = "running"
    /\ PopIncr(MainThread)
    /\ UNCHANGED <<dtor, nPop>>

\* ------------------------------------------------------- specifications
Step(t) ==
    \/ PushNew(t)
    \/ PushNewFail(t)
    \/ PushThrow(t)
    \/ PushLoad(t)
    \/ PushCasOk(t)
    \/ PushCasFail(t)
    \/ PopEnter(t)
    \/ PopLoad(t)
    \/ PopLoop(t)
    \/ PopCasOk(t)
    \/ PopCasFail(t)
    \/ PopSwap(t)
    \/ PopReturn(t)
    \/ RcCheck(t)
    \/ RcDelete(t)
    \/ RcExchange(t)
    \/ RcDec(t)
    \/ RcDecElse(t)
    \/ DeleteNodes(t)
    \/ ChainWalk(t)
    \/ ChainLoad(t)
    \/ ChainCasOk(t)
    \/ ChainCasFail(t)

Next ==
    \/ \E t \in Threads : Step(t)
    \/ DtorStart
    \/ DtorPop

Spec == Init /\ [][Next]_vars

\* The owning thread alone: the steps a call can take when no other thread
\* runs.
NextSeq ==
    \/ PushNew(MainThread)
    \/ PushNewFail(MainThread)
    \/ PushThrow(MainThread)
    \/ PushLoad(MainThread)
    \/ PushCasOk(MainThread)
    \/ PopEnter(MainThread)
    \/ PopLoad(MainThread)
    \/ PopLoop(MainThread)
    \/ PopCasOk(MainThread)
    \/ PopCasFail(MainThread)
    \/ PopSwap(MainThread)
    \/ PopReturn(MainThread)
    \/ RcCheck(MainThread)
    \/ RcDelete(MainThread)
    \/ RcExchange(MainThread)
    \/ RcDec(MainThread)
    \/ DeleteNodes(MainThread)

SpecSeq == InitSeq /\ [][NextSeq]_vars

\* Two threads push one value each while a third thread pops once per
\* pushed value.  The stack copies values and never inspects them, and it
\* never inspects which thread calls, so the two values are those of the
\* model: 1 is the value whose node is allocated first, 2 the other.  Both
\* allocations succeed.
Pushers == 1..2
Popper  == 3

InitScenario ==
    /\ head = NULL
    /\ to_be_deleted = NULL
    /\ threads_in_pop = 0
    /\ alloc = {}
    /\ brk = 0
    /\ next = [a \in Addr |-> NULL]
    /\ data = [a \in Addr |-> Empty]
    /\ th = [t \in Pushers \cup {Popper} |-> IdleThread]
    /\ dtor = "alive"
    /\ fault = "none"
    /\ nPush = 0
    /\ nPop = 0
    /\ val = [a \in Addr |-> Empty]
    /\ retCount = [v \in Values |-> 0]
    /\ freeCount = [v \in Values |-> 0]
    /\ detachCount = [v \in Values |-> 0]
    /\ pushDone = 0
    /\ log = <<>>
    /\ abs = <<>>
    /\ tracing = TRUE

NextScenario ==
    \/ \E t \in Pushers :
          \/ nPush < Cardinality(Pushers) /\ PushNew(t)
          \/ PushLoad(t)
          \/ PushCasOk(t)
          \/ PushCasFail(t)
    \/ nPop < Cardinality(Pushers) /\ PopEnter(Popper)
    \/ PopLoad(Popper)
    \/ PopLoop(Popper)
    \/ PopCasOk(Popper)
    \/ PopCasFail(Popper)
    \/ PopSwap(Popper)
    \/ PopReturn(Popper)
    \/ RcCheck(Popper)
    \/ RcDelete(Popper)
    \/ RcExchange(Popper)
    \/ RcDec(Popper)
    \/ DeleteNodes(Popper)

SpecScenario == InitScenario /\ [][NextScenario]_vars

\* Every thread inside a call keeps being scheduled, and an exchange that
\* could succeed again and again is not failed forever (the weak form may
\* fail spuriously, but not consistently).
Fairness ==
    \A t \in Threads :
        /\ WF_vars(Step(t))
        /\ SF_vars(PushCasOk(t))
        /\ SF_vars(PopCasOk(t))
        /\ SF_vars(ChainCasOk(t))

SpecFair == Init /\ [][Next]_vars /\ Fairness

\* ---------------------------------------------------------------- queries
AllIdle == \A t \in Threads : th[t].pc = "idle"

\* The addresses reached from p along next, at most fuel of them.
RECURSIVE Chain(_, _)
Chain(p, fuel) ==
    IF p = NULL \/ fuel = 0 THEN <<>>
    ELSE <<p>> \o Chain(next[p], fuel - 1)

MainList == Chain(head, Cardinality(Addr) + 1)
PendingList == Chain(to_be_deleted, Cardinality(Addr) + 1)

\* A thread that has detached the node old_head and not yet disposed of it.
Detached(t) ==
    /\ th[t].old_head # NULL
    /\ th[t].pc \in {"rc_check", "rc_delete", "chain_load", "chain_cas",
                     "rc_dec_else"}
    /\ th[t].via # "nodes"

\* A thread holding old_head as a snapshot of head it has yet to detach.
Snapshot(t) ==
    /\ th[t].old_head # NULL
    /\ th[t].pc \in {"pop_loop", "pop_cas"}

\* ================================================================= claims

\* C1 -- exactly-once delivery: no value is returned by more than one pop
\* call, and once every thread is outside any call and the stack is empty
\* every value pushed so far has been returned by exactly one pop call.
C1_ExactlyOnce ==
    /\ \A v \in Values : retCount[v] <= 1
    /\ (AllIdle /\ head = NULL) => \A v \in 1..nPush : retCount[v] = 1

\* C1 witness: all pushes and all worker pops were issued, the stack was
\* drained by the workers and each value came back once.
C1_Drained ==
    /\ AllIdle /\ head = NULL /\ dtor = "alive"
    /\ nPush = MaxPush /\ nPop = MaxPop
    /\ \A v \in Values : retCount[v] = 1

\* C2 -- sequential LIFO law: when one thread's calls are n pushes followed
\* by k <= n + 1 pops, the j-th pop returns the (n + 1 - j)-th pushed value
\* and the (n + 1)-th pop returns empty.
C2_SequentialLifo ==
    \A n \in 0..MaxPush : \A k \in 0..(n + 1) :
        ( /\ Len(log) >= n + k
          /\ \A i \in 1..n : log[i] = <<"push", i>>
          /\ \A j \in 1..k : log[n + j][1] = "pop" )
        => \A j \in 1..k :
              log[n + j][2] = IF j <= n THEN n + 1 - j ELSE Empty

\* C2 witness: MaxPush pushes, then MaxPush + 1 pops have returned.
C2_FullRun ==
    /\ Len(log) = 2 * MaxPush + 1
    /\ \A i \in 1..MaxPush : log[i][1] = "push"
    /\ \A i \in (MaxPush + 1)..(2 * MaxPush + 1) : log[i][1] = "pop"

\* C3 -- a pop that found the stack empty finishes try_reclaim without
\* touching memory through its null old_head, whatever the counter reads.
C3_EmptyPopReclaims ==
    \A t \in Threads :
        (th[t].op = "pop" /\ th[t].old_head = NULL /\ th[t].pc = "chain_load")
        => fault # "null_deref"

\* C4 -- no use-after-free: no thread reads or writes a deleted node, and
\* the node a thread inside pop holds as its snapshot of head is still the
\* node it loaded, not deleted and not replaced at the same address.
C4_NoUseAfterFree ==
    /\ fault # "use_after_free"
    /\ \A t \in Threads :
          (th[t].old_head # NULL /\ th[t].pc \in {"pop_loop", "pop_cas", "pop_swap"})
          => /\ th[t].old_head \in alloc
             /\ val[th[t].old_head] = th[t].seen

\* C4 witness: one thread has detached a node and deferred its deletion
\* while another thread still holds the same node as its snapshot.
C4_DeferredWhileHeld ==
    \E t, u \in Threads :
        /\ t # u
        /\ Snapshot(t)
        /\ Detached(u) /\ th[u].pc = "rc_dec_else"
        /\ th[u].old_head = th[t].old_head

\* C5 -- no double free: delete is never applied to a node already
\* deleted, so each node is deleted at most once.
C5_NoDoubleFree ==
    /\ fault # "double_free"
    /\ \A v \in Values : freeCount[v] <= 1

\* C5 witness: a thread is deleting a node of a pending list it took, after
\* another node was deleted as the just-detached node.
C5_BothDeletions ==
    \E t \in Threads :
        /\ th[t].pc = "delete_nodes"
        /\ th[t].nodes_to_delete # NULL
        /\ \E v \in Values : freeCount[v] = 1

\* C6 -- no leak after a synchronized teardown: when the destructor has
\* finished, every node ever allocated has been deleted, head and the
\* pending list are empty and the counter is zero.
C6_NoLeakAfterTeardown ==
    dtor = "destroyed" =>
        /\ alloc = {}
        /\ \A v \in 1..nPush : freeCount[v] = 1
        /\ head = NULL
        /\ to_be_deleted = NULL
        /\ threads_in_pop = 0

\* C6 witness: a pop of the destructor has deleted the node it detached
\* from the main list and is deleting a node it took from the pending list.
C6_TeardownWithPending ==
    /\ dtor = "running"
    /\ th[MainThread].pc = "delete_nodes"
    /\ th[MainThread].nodes_to_delete # NULL
    /\ th[MainThread].old_head # NULL
    /\ \E v \in Values : freeCount[v] = 1

\* C7 -- exclusive detachment: for each node at most one pop's exchange on
\* head succeeds with that node as the expected value.
C7_ExclusiveDetach == \A v \in Values : detachCount[v] <= 1

\* C7 witness: two pops held the same snapshot; one has detached the node
\* and the other is at its exchange.
C7_Contended ==
    \E t, u \in Threads :
        /\ t # u
        /\ th[t].pc = "pop_cas"
        /\ Detached(u)
        /\ th[u].old_head = th[t].old_head
        /\ detachCount[th[t].seen] = 1

\* C8 -- push and pop run to completion: a call that has been entered is
\* never left without a step to take before it returns.
C8_RunToCompletion ==
    \A t \in Threads : th[t].pc # "idle" => ENABLED Step(t)

\* C8, the part the code does satisfy: under fair scheduling every call
\* that has been entered returns, unless the process has died.
C8_ReturnsUnlessDead ==
    \A t \in Threads :
        (th[t].pc # "idle") ~> (th[t].pc = "idle" \/ fault # "none")

\* C9 -- empty-pop idempotence: while nothing has been pushed, every pop
\* returns empty without error (it never enters chain_pending_nodes with
\* its null old_head) and leaves head empty, the pending list empty and,
\* once returned, the counter at zero.
C9_EmptyPopIdempotent ==
    nPush = 0 =>
        /\ fault = "none"
        /\ \A t \in Threads : th[t].pc # "chain_load"
        /\ head = NULL
        /\ to_be_deleted = NULL
        /\ \A i \in 1..Len(log) : log[i] = <<"pop", Empty>>
        /\ AllIdle => threads_in_pop = 0

\* C9 witness: MaxPop pops of the fresh stack have returned.
C9_RepeatedEmptyPops ==
    /\ nPush = 0
    /\ AllIdle
    /\ Len(log) = MaxPop

\* C10 -- conservation under concurrent pushes: with no worker pop issued,
\* once all pushes have returned the list from head holds exactly one live
\* node per push, and the drain returns every pushed value exactly once.
C10_PushConservation ==
    /\ (nPop = 0 /\ dtor = "alive" /\ AllIdle) =>
          /\ Len(MainList) = nPush
          /\ {val[MainList[i]] : i \in 1..Len(MainList)} = 1..nPush
          /\ \A i \in 1..Len(MainList) : data[MainList[i]] = val[MainList[i]]
    /\ (nPop = 0 /\ dtor = "destroyed") =>
          \A v \in 1..nPush : retCount[v] = 1

\* C10 witness: MaxPush pushes raced, the value pushed first ended on top,
\* and the drain is under way with the whole list still in place.
C10_RacedPushes ==
    /\ nPop = 0 /\ dtor = "running" /\ AllIdle
    /\ nPush = MaxPush
    /\ Len(MainList) = MaxPush
    /\ val[head] = 1

\* C11 -- allocation failure in push: a push call whose allocation failed
\* is ended by the exception and never goes on to link a node, and neither
\* the failing allocation nor the propagation of the exception changes
\* head, the pending list, the counter or any node.
C11_AllocFailureFrame ==
    /\ [](\A t \in Threads :
            th[t].pc \in {"push_load", "push_cas"} => th[t].new_node \in alloc)
    /\ [][\A t \in Threads :
            (th'[t] # th[t] /\ "push_throw" \in {th[t].pc, th'[t].pc})
            => /\ UNCHANGED <<head, to_be_deleted, threads_in_pop>>
               /\ UNCHANGED <<alloc, next, data, pushDone>>
               /\ th[t].pc = "push_throw" => th'[t] = IdleThread]_vars

\* C11 witness: an allocation fails while the stack holds a node, a node is
\* pending deletion and another thread is inside pop.
C11_FailsOnBusyStack ==
    \E t \in Threads :
        /\ th[t].pc = "push_throw"
        /\ head # NULL
        /\ to_be_deleted # NULL
        /\ threads_in_pop > 0

\* The results of the pop calls that have returned, and how many there are.
PopResults == {log[i][2] : i \in {j \in 1..Len(log) : log[j][1] = "pop"}}
PopsReturned == Cardinality({j \in 1..Len(log) : log[j][1] = "pop"})
ScenarioDone ==
    /\ \A t \in DOMAIN th : th[t].pc = "idle"
    /\ pushDone = Cardinality(Pushers)
    /\ PopsReturned = Cardinality(Pushers)

\* C12, as stated -- two threads push 10 and 20 onto the empty stack while
\* a third thread pops twice: in every interleaving the two pop results,
\* taken as a set, are the two pushed values.
C12_PopsReturnBothValues ==
    PopsReturned = Cardinality(Pushers) => PopResults = 1..Cardinality(Pushers)

\* C12, amended -- in every interleaving each pop returns one of the pushed
\* values or empty, no value is returned by both pops, and once all calls
\* have returned every pushed value was either returned by a pop or is
\* still on the stack with its value in place, never both; so the results
\* are the two pushed values exactly when neither pop found the stack empty.
C12_PopsOrStackHoldBothValues ==
    /\ fault = "none"
    /\ PopResults \subseteq (1..nPush) \cup {Empty}
    /\ \A v \in Values : retCount[v] <= 1
    /\ ScenarioDone =>
          /\ \A v \in 1..Cardinality(Pushers) :
                (v \in PopResults) #
                (\E i \in 1..Len(MainList) :
                    val[MainList[i]] = v /\ data[MainList[i]] = v)
          /\ Len(MainList) + Cardinality(PopResults \ {Empty})
                = Cardinality(Pushers)
          /\ Empty \notin PopResults => PopResults = 1..Cardinality(Pushers)

\* C12 witness: the pushes raced so that the value allocated first ended on
\* top, and the two pops returned it first and the other value second.
C12_BothPoppedAfterRace ==
    /\ ScenarioDone
    /\ head = NULL
    /\ log = <<<<"push", 2>>, <<"push", 1>>, <<"pop", 1>>, <<"pop", 2>>>>

\* The values of the nodes reachable from head, top first.
MainValues == [i \in 1..Len(MainList) |-> val[MainList[i]]]

\* A thread inside pop that has passed the point where its call takes
\* effect and has its result in res.
Decided(t) ==
    th[t].pc \in {"rc_check", "rc_delete", "rc_exchange", "rc_dec",
                  "rc_dec_else", "delete_nodes", "chain_walk", "chain_load",
                  "chain_cas", "pop_ret"}

\* C13 -- refinement of an atomic stack: with push taking effect at its
\* successful exchange on head and pop at its successful exchange, or at
\* the load that read head as nullptr, the values reachable from head are
\* at every instant the atomic stack, and the result of every pop is the
\* value that was on top of the atomic stack when the pop took effect,
\* empty exactly when the atomic stack was empty then.
C13_RefinesAtomicStack ==
    /\ MainValues = abs
    /\ \A t \in Threads : Decided(t) => th[t].res = th[t].top

\* C13 witness: a pop took effect between a push's load of head and its
\* exchange, and is about to return the value that was on top.
C13_PopDecidedUnderPush ==
    \E t, u \in Threads :
        /\ th[t].pc = "pop_ret" /\ th[t].res # Empty
        /\ th[u].pc = "push_cas"
        /\ next[th[u].new_node] # head

\* The set of the elements of a sequence.
Range(s) == {s[i] : i \in 1..Len(s)}

PendingValues == ValuesFrom(to_be_deleted)

\* A thread re-linking the list it took (lines 30, 40-55).
Relinking(t) ==
    /\ th[t].via = "nodes"
    /\ th[t].pc \in {"chain_walk", "chain_load", "chain_cas"}

\* C15 -- in the counter-equals-one branch the taken nodes are freed if and
\* only if the decrement of line 24 leaves the counter at zero: then
\* delete_nodes has deleted every taken node when it returns; otherwise no
\* taken node is deleted, and at the step where the re-linking exchange of
\* line 53 succeeds every taken node is reachable from to_be_deleted again,
\* together with every node that was pending just before that step.
C15_TakenFreedIffZero ==
    /\ [](\A t \in Threads :
            Relinking(t) =>
                /\ th[t].taken # {}
                /\ \A v \in th[t].taken : freeCount[v] = 0)
    /\ [][\A t \in Threads :
            /\ (th[t].pc = "rc_dec" /\ th'[t].pc # "rc_dec")
               => /\ th'[t].pc = "delete_nodes" <=> threads_in_pop' = 0
                  /\ (th'[t].pc # "delete_nodes" /\ th[t].taken # {})
                     => Relinking(t)'
                  /\ freeCount' = freeCount
            /\ (th[t].pc = "delete_nodes" /\ th'[t].pc = "pop_ret")
               => \A v \in th[t].taken : freeCount'[v] = 1
            /\ (Relinking(t) /\ th'[t].pc = "pop_ret")
               => /\ th[t].taken \subseteq PendingValues'
                  /\ PendingValues \subseteq PendingValues'
                  /\ freeCount' = freeCount]_vars

\* C15 witness: a pop took a pending node, found the counter still above
\* zero after its decrement, and has put the node back on the pending list.
C15_TakenPutBack ==
    \E t \in Threads :
        /\ th[t].pc = "pop_ret"
        /\ th[t].taken # {}
        /\ th[t].taken \subseteq PendingValues
        /\ threads_in_pop > 0

\* A thread in the branch of lines 33-37: appending the node it detached
\* (line 35), or about to decrement (line 36).
Appending(t) == th[t].via = "one" /\ th[t].pc \in {"chain_load", "chain_cas"}
ElseBranch(t) == Appending(t) \/ th[t].pc = "rc_dec_else"

C17_HandlesByList ==
    /\ \A a \in Range(MainList) :
          a \in alloc /\ data[a] # Empty /\ data[a] = val[a]
    /\ \A a \in Range(PendingList) \ Range(MainList) :
          a \in alloc /\ data[a] = Empty /\ val[a] # Empty

\* C17 witness: a node is in the main list and another is pending, the
\* pop that detached the pending one holding its value as the result.
C17_LiveAndPending ==
    /\ head # NULL
    /\ to_be_deleted # NULL
    /\ \E t \in Threads :
          /\ th[t].pc = "rc_dec_else"
          /\ th[t].old_head = to_be_deleted
          /\ th[t].res = val[to_be_deleted]

\* A thread that has executed line 107 and not yet the decrement of line 24
\* or line 36.
InFlight(t) ==
    \/ th[t].pc \in {"pop_load", "pop_loop", "pop_cas", "pop_swap", "rc_check",
                     "rc_delete", "rc_exchange", "rc_dec", "rc_dec_else"}
    \/ Appending(t)

\* C18 -- the counter counts the pops in flight: threads_in_pop equals the
\* number of threads between the increment of line 107 and their decrement
\* in try_reclaim, so it is never negative and is zero when no thread is
\* inside pop; a step changes it only by one, upwards exactly when a thread
\* enters pop and downwards exactly when a thread in flight leaves that
\* stretch, which a call does once, before it returns.
C18_CounterCountsPops ==
    /\ [](/\ threads_in_pop = Cardinality({t \in Threads : InFlight(t)})
          /\ threads_in_pop >= 0
          /\ (\A t \in Threads : th[t].op # "pop") => threads_in_pop = 0)
    /\ [][\A t \in Threads :
            th'[t] # th[t] =>
               /\ threads_in_pop' = threads_in_pop + 1
                     <=> (th[t].pc = "idle" /\ th'[t].op = "pop")
               /\ threads_in_pop' = threads_in_pop - 1
                     <=> (InFlight(t) /\ ~InFlight(t)')
               /\ threads_in_pop' - threads_in_pop \in {-1, 0, 1}
               /\ (InFlight(t)' /\ ~InFlight(t)) => th[t].pc = "idle"
               /\ (th[t].op = "pop" /\ th'[t].pc = "idle")
                     => (th[t].pc = "pop_ret" /\ ~InFlight(t))]_vars

\* C18 witness: of two overlapping pops one has decremented in the
\* counter-equals-one branch and is about to return, the other has found
\* the stack empty and is still in flight.
C18_OneRetiredOneInFlight ==
    \E t, u \in Threads :
        /\ th[t].pc = "pop_ret"
        /\ InFlight(u) /\ th[u].old_head = NULL /\ th[u].pc = "rc_check"
        /\ threads_in_pop = 1

\* The values whose push has linked its node: issued, and not in the hands
\* of a push call still before its successful exchange.
Linked ==
    {v \in 1..nPush :
        \A t \in Threads :
            ~(th[t].pc \in {"push_load", "push_cas"} /\ th[t].arg = v)}

\* C19 -- no corruption through address reuse, operator new being free to
\* hand out again any address that was deleted: at every successful
\* exchange of line 110 the node detached is the live node the pop loaded,
\* not another node at the same address, and the pointer installed is that
\* node's next at that instant; the list from head is acyclic, made of live
\* nodes, and holds exactly the values linked and not yet detached.
C19_NoCorruptionOnReuse ==
    /\ [](/\ Cardinality(Range(MainList)) = Len(MainList)
          /\ Range(MainList) \subseteq alloc
          /\ Len(MainList) <= Cardinality(Addr)
          /\ {val[a] : a \in Range(MainList)}
                = {v \in Linked : detachCount[v] = 0})
    /\ [][\A t \in Threads :
            (th[t].pc = "pop_cas" /\ th'[t].pc = "pop_swap")
            => /\ th[t].old_head \in alloc
               /\ val[th[t].old_head] = th[t].seen
               /\ th[t].nxt = next[th[t].old_head]
               /\ head' = next[th[t].old_head]]_vars

\* C19 witness: the second node was allocated at the address of the first,
\* which had been popped and deleted, and a pop has detached the new node.
C19_ReusedNodeDetached ==
    \E t \in Threads :
        /\ th[t].pc = "pop_swap"
        /\ nPush = 2 /\ brk = 1
        /\ th[t].seen = 2
        /\ freeCount[1] = 1

\* C20 -- the frame of push: a step of a push call leaves threads_in_pop
\* and to_be_deleted unchanged and changes no node but the call's own new
\* node; it changes head only at the successful exchange of line 101, from
\* the value held in new_node->next to new_node, so that the list from head
\* becomes the new node, carrying the pushed value, followed by the list
\* as it was.
C20_PushFrame ==
    [][\A t \in Threads :
         LET n == th[t].new_node
             moved == th'[t] # th[t]
             wrote == n # NULL /\ next'[n] # next[n]
         IN  ((th[t].op = "push" \/ th'[t].op = "push") /\ (moved \/ wrote))
             => /\ UNCHANGED <<threads_in_pop, to_be_deleted>>
                /\ \A a \in Addr \ {n, th'[t].new_node} :
                      /\ next'[a] = next[a]
                      /\ data'[a] = data[a]
                      /\ a \in alloc' <=> a \in alloc
                /\ head' # head => (th[t].pc = "push_cas" /\ th'[t].pc = "idle")
                /\ (th[t].pc = "push_cas" /\ th'[t].pc = "idle")
                   => /\ head = next[n]
                      /\ head' = n
                      /\ data[n] = th[t].arg
                      /\ MainList' = <<n>> \o MainList]_vars

\* C20 witness: the last push has linked its node while a node detached
\* earlier was pending and a pop was in flight.
C20_PushedBesidePop ==
    /\ pushDone = MaxPush
    /\ Len(MainList) = MaxPush - 1
    /\ val[head] = MaxPush
    /\ to_be_deleted # NULL
    /\ threads_in_pop > 0
====
